---- MODULE Spec2Model ----
(***************************************************************************)
(* Real Estate Deal Analyzer (real_estate_analyzer.py).                    *)
(*                                                                         *)
(* The three calculators work on Python floats.  A float is modelled as    *)
(* the exact dyadic rational it denotes, (-1)^neg * m * 2^e, with m an     *)
(* arbitrary-precision natural number, and every arithmetic operation      *)
(* rounds its exact result to a 53-bit significand, ties to even, as       *)
(* IEEE 754 binary64 does.  The magnitudes of the program stay far from    *)
(* the overflow and subnormal ranges, so the exponent is left unbounded.   *)
(***************************************************************************)
EXTENDS Integers, Sequences, FiniteSets, TLC

(***************************************************************************)
(* An operand is evaluated once and then named: The({ e(x) : x \in {a} })  *)
(* is e(a) with a evaluated a single time, however often e uses it.        *)
(***************************************************************************)
The(S) == CHOOSE r \in S : TRUE

(***************************************************************************)
(* Arbitrary-precision naturals: little-endian sequences of limbs below    *)
(* Base, without high zero limbs; << >> is 0.                              *)
(***************************************************************************)
LimbBits == 2 * 7

Base == 2 ^ LimbBits

Limb(a, i) == IF i <= Len(a) THEN a[i] ELSE 0

\* the index of the highest nonzero limb, 0 when there is none
TopLimb(a) ==
    IF \A i \in 1..Len(a) : a[i] = 0 THEN 0
    ELSE CHOOSE i \in 1..Len(a) : a[i] # 0 /\ \A j \in (i + 1)..Len(a) : a[j] = 0

\* a without its high zero limbs
Trim(a) == The({ SubSeq(x, 1, TopLimb(x)) : x \in {a} })

RECURSIVE NatOfInt(_)
NatOfInt(n) == IF n = 0 THEN << >> ELSE <<n % Base>> \o NatOfInt(n \div Base)

RECURSIVE NAddFrom(_, _, _, _)
NAddFrom(a, b, i, carry) ==
    IF i > Len(a) /\ i > Len(b)
    THEN IF carry = 0 THEN << >> ELSE <<carry>>
    ELSE The({ <<s % Base>> \o NAddFrom(a, b, i + 1, s \div Base) :
               s \in {Limb(a, i) + Limb(b, i) + carry} })

NAdd(a, b) == The({ NAddFrom(x, y, 1, 0) : x \in {a}, y \in {b} })

RECURSIVE NSubFrom(_, _, _, _)
NSubFrom(a, b, i, borrow) ==
    IF i > Len(a) THEN << >>
    ELSE The({ IF d < 0
               THEN <<d + Base>> \o NSubFrom(a, b, i + 1, 1)
               ELSE <<d>> \o NSubFrom(a, b, i + 1, 0) :
               d \in {Limb(a, i) - Limb(b, i) - borrow} })

\* a - b for a >= b
NSub(a, b) == The({ Trim(NSubFrom(x, y, 1, 0)) : x \in {a}, y \in {b} })

RECURSIVE NCmpFrom(_, _, _)
NCmpFrom(a, b, i) ==
    IF i = 0 THEN 0
    ELSE IF a[i] < b[i] THEN -1
    ELSE IF a[i] > b[i] THEN 1
    ELSE NCmpFrom(a, b, i - 1)

\* -1, 0 or 1 as a < b, a = b or a > b
NCmp(a, b) ==
    The({ IF Len(x) < Len(y) THEN -1
          ELSE IF Len(x) > Len(y) THEN 1
          ELSE NCmpFrom(x, y, Len(x)) : x \in {a}, y \in {b} })

RECURSIVE NMulSmallFrom(_, _, _, _)
NMulSmallFrom(a, k, i, carry) ==
    IF i > Len(a)
    THEN IF carry = 0 THEN << >> ELSE <<carry>>
    ELSE The({ <<s % Base>> \o NMulSmallFrom(a, k, i + 1, s \div Base) :
               s \in {a[i] * k + carry} })

\* a * k for 0 <= k < Base
NMulSmall(a, k) ==
    The({ IF j = 0 THEN << >> ELSE NMulSmallFrom(x, j, 1, 0) : x \in {a}, j \in {k} })

\* a * Base^n
ShiftLimbs(a, n) ==
    The({ IF x = << >> THEN << >> ELSE [i \in 1..n |-> 0] \o x : x \in {a} })

RECURSIVE NMulFrom(_, _, _)
NMulFrom(a, b, j) ==
    IF j > Len(b) THEN << >>
    ELSE NAdd(ShiftLimbs(NMulSmall(a, b[j]), j - 1), NMulFrom(a, b, j + 1))

NMul(a, b) == The({ NMulFrom(x, y, 1) : x \in {a}, y \in {b} })

\* a * 2^k
NShl(a, k) ==
    The({ ShiftLimbs(NMulSmall(a, 2 ^ (j % LimbBits)), j \div LimbBits) : j \in {k} })

\* floor(a / 2^k)
NShr(a, k) ==
    The({ LET drop == j \div LimbBits
              p    == 2 ^ (j % LimbBits)
              n    == Len(x) - drop
          IN  IF n <= 0 THEN << >>
              ELSE Trim([i \in 1..n |->
                          (x[drop + i] \div p)
                          + (Limb(x, drop + i + 1) % p) * (Base \div p)]) :
          x \in {a}, j \in {k} })

\* bit k of a (bit 0 is the lowest)
NBit(a, k) ==
    The({ (Limb(x, j \div LimbBits + 1) \div (2 ^ (j % LimbBits))) % 2 :
          x \in {a}, j \in {k} })

\* whether bits 0 .. k-1 of a are all zero
NLowZero(a, k) ==
    The({ /\ \A i \in 1..(j \div LimbBits) : Limb(x, i) = 0
          /\ Limb(x, j \div LimbBits + 1) % (2 ^ (j % LimbBits)) = 0 :
          x \in {a}, j \in {k} })

RECURSIVE BitLenSmall(_)
BitLenSmall(n) == IF n = 0 THEN 0 ELSE 1 + BitLenSmall(n \div 2)

NBitLen(a) ==
    The({ IF x = << >> THEN 0
          ELSE LimbBits * (Len(x) - 1) + BitLenSmall(x[Len(x)]) : x \in {a} })

RECURSIVE TzSmall(_)
TzSmall(n) == IF n % 2 = 1 THEN 0 ELSE 1 + TzSmall(n \div 2)

RECURSIVE NTzFrom(_, _)
NTzFrom(a, i) == IF a[i] = 0 THEN LimbBits + NTzFrom(a, i + 1) ELSE TzSmall(a[i])

\* number of trailing zero bits of a > 0
NTz(a) == The({ NTzFrom(x, 1) : x \in {a} })

\* the largest digit t below Base with d * t <= r, found bit by bit
RECURSIVE QDigit(_, _, _, _)
QDigit(r, d, b, t) ==
    IF b < 0 THEN t
    ELSE The({ IF NCmp(NMulSmall(d, t2), r) <= 0
               THEN QDigit(r, d, b - 1, t2)
               ELSE QDigit(r, d, b - 1, t) : t2 \in {t + 2 ^ b} })

\* long division of n by d > 0, one limb of n at a time from the highest
RECURSIVE NDivFrom(_, _, _, _, _)
NDivFrom(n, d, i, q, r) ==
    IF i = 0 THEN <<Trim(q), r>>
    ELSE The({ The({ The({ NDivFrom(n, d, i - 1, q2, r3) :
                           q2 \in {<<t>> \o q},
                           r3 \in {NSub(r2, NMulSmall(d, t))} }) :
                     t \in {QDigit(r2, d, LimbBits - 1, 0)} }) :
               r2 \in {Trim(<<n[i]>> \o r)} })

\* <<floor(n / d), n mod d>>
NDivMod(n, d) == The({ NDivFrom(x, y, Len(x), << >>, << >>) : x \in {n}, y \in {d} })

(***************************************************************************)
(* Python floats.  [neg, m, e] denotes (-1)^neg * m * 2^e; the canonical   *)
(* form has m odd (0 is FZero), so two floats are equal exactly when       *)
(* their records are.  An int below 2^53 converts exactly, so the ints     *)
(* the form hands over are carried in the same representation.             *)
(***************************************************************************)
Precision == 53

Min(x, y) == IF x <= y THEN x ELSE y

Max(x, y) == IF x >= y THEN x ELSE y

FZero == [neg |-> FALSE, m |-> << >>, e |-> 0]

Canon(neg, m, e) ==
    The({ IF x = << >> THEN FZero
          ELSE The({ [neg |-> neg, m |-> NShr(x, t), e |-> e + t] : t \in {NTz(x)} }) :
          x \in {m} })

\* floor(m / 2^d) rounded half-even on the d bits dropped, d > 0
RoundTo(m, d) ==
    The({ IF NBit(m, d - 1) = 1 /\ (~NLowZero(m, d - 1) \/ NBit(q, 0) = 1)
          THEN NAdd(q, <<1>>) ELSE q : q \in {NShr(m, d)} })

\* round-half-even of the exact value (-1)^neg * m * 2^e to Precision bits
Round(neg, m, e) ==
    The({ Canon(neg, IF d > 0 THEN RoundTo(x, d) ELSE x, e + Max(0, d)) :
          x \in {m}, d \in {NBitLen(m) - Precision} })

FromInt(n) == Canon(n < 0, NatOfInt(IF n < 0 THEN -n ELSE n), 0)

FNeg(a) == The({ IF x = FZero THEN x ELSE [x EXCEPT !.neg = ~x.neg] : x \in {a} })

\* the sum of two floats already evaluated: their significands are brought
\* to the lower exponent and added, or the smaller taken from the larger
AddValues(a, b) ==
    The({ The({ Round(IF a.neg = b.neg \/ c > 0 THEN a.neg ELSE b.neg,
                      IF a.neg = b.neg THEN NAdd(am, bm)
                      ELSE NSub(IF c > 0 THEN am ELSE bm, IF c > 0 THEN bm ELSE am),
                      Min(a.e, b.e)) :
                c \in {NCmp(am, bm)} }) :
          am \in {NShl(a.m, a.e - Min(a.e, b.e))},
          bm \in {NShl(b.m, b.e - Min(a.e, b.e))} })

\* a + b
FAdd(a, b) == The({ AddValues(x, y) : x \in {a}, y \in {b} })

\* a - b
FSub(a, b) == FAdd(a, FNeg(b))

\* a * b
FMul(a, b) ==
    The({ Round(x.neg # y.neg, NMul(x.m, y.m), x.e + y.e) : x \in {a}, y \in {b} })

\* the quotient of two floats already evaluated, b # 0: the quotient to
\* Precision + 2 bits and a sticky bit for the remainder
DivValues(a, b) ==
    IF a = FZero THEN FZero
    ELSE The({ The({ Round(a.neg # b.neg,
                           NAdd(NShl(qr[1], 1),
                                IF qr[2] = << >> THEN << >> ELSE <<1>>),
                           a.e - b.e - k - 1) :
                     qr \in {NDivMod(NShl(a.m, k), b.m)} }) :
               k \in {Max(0, Precision + 2 + NBitLen(b.m) - NBitLen(a.m))} })

\* a / b for b # 0 (Python raises ZeroDivisionError before dividing by 0)
FDiv(a, b) == The({ DivValues(x, y) : x \in {a}, y \in {b} })

\* -1, 0 or 1 as a is negative, zero or positive
Sign(a) == IF a = FZero THEN 0 ELSE IF a.neg THEN -1 ELSE 1

\* -1, 0 or 1 as a < b, a = b or a > b: the comparison of floats is exact
FCmp(a, b) ==
    The({ IF Sign(x) # Sign(y) THEN (IF Sign(x) < Sign(y) THEN -1 ELSE 1)
          ELSE Sign(x) * NCmp(NShl(x.m, x.e - Min(x.e, y.e)),
                              NShl(y.m, y.e - Min(x.e, y.e))) :
          x \in {a}, y \in {b} })

FLt(a, b) == FCmp(a, b) < 0

FLe(a, b) == FCmp(a, b) <= 0

FAbs(a) == [a EXCEPT !.neg = FALSE]

\* a decimal literal n/d, which Python reads as the float nearest to it
Lit(n, d) == FDiv(FromInt(n), FromInt(d))

(***************************************************************************)
(* Exceptions.  A call that raises returns nothing: its outcome is the     *)
(* exception.                                                              *)
(***************************************************************************)
Raise(exc) == [raised |-> exc]

Raised(r) == "raised" \in DOMAIN r

\* Python's a / b: ZeroDivisionError when b is 0
TrueDiv(a, b) == IF b = FZero THEN Raise("ZeroDivisionError") ELSE FDiv(a, b)

(***************************************************************************)
(* calculate_seller_net(price, is_mls).  Sums are taken left to right, as  *)
(* Python evaluates them.                                                  *)
(***************************************************************************)
\* the listed sale's prep costs at 25000, the total the help text names
prep_costs_25000(is_mls) == IF is_mls THEN FromInt(25000) ELSE FZero

\* the prep costs charged to the sale that is not listed
prep_costs_inverted(is_mls) ==
    IF is_mls THEN FZero ELSE FromInt(8000 + 6000 + 1500 + 5000 + 3000 + 1000)

prep_costs(is_mls) ==
    IF is_mls THEN FromInt(8000 + 6000 + 1500 + 5000 + 3000 + 1000) ELSE FZero

calculate_seller_net(price, is_mls) ==
    LET listing_agent == FMul(price, Lit(3, 100))
        buyer_agent   == IF is_mls THEN FMul(price, Lit(2, 100)) ELSE FZero
        holding_costs == IF is_mls THEN FromInt(2000 + 600 + 333) ELSE FZero
        transfer_tax  == FMul(price, Lit(11, 10000))
        escrow_fees   == FromInt(1500)
        total_costs   == FAdd(FAdd(FAdd(FAdd(FAdd(listing_agent, buyer_agent),
                                             prep_costs(is_mls)), holding_costs),
                                   transfer_tax), escrow_fees)
    IN  [price             |-> price,
         listing_agent     |-> listing_agent,
         buyer_agent       |-> buyer_agent,
         prep_costs        |-> prep_costs(is_mls),
         holding_costs     |-> holding_costs,
         transaction_costs |-> FAdd(transfer_tax, escrow_fees),
         total_costs       |-> total_costs,
         net               |-> FSub(price, total_costs)]

(***************************************************************************)
(* calculate_buyer_costs(purchase_price, down_pct, interest_rate,          *)
(* remodel_cost, months)                                                   *)
(***************************************************************************)
\* the closing costs with the five fixed fees added up beforehand
closing_costs_lump_sum(loan_amount) ==
    FAdd(FMul(loan_amount, Lit(1, 100)), FromInt(600 + 500 + 1500 + 1500 + 200))

\* loan_origination + 600 + 500 + 1500 + 1500 + 200
closing_costs(loan_amount) ==
    FAdd(FAdd(FAdd(FAdd(FAdd(FMul(loan_amount, Lit(1, 100)),
         FromInt(600)), FromInt(500)), FromInt(1500)), FromInt(1500)), FromInt(200))

calculate_buyer_costs(purchase_price, down_pct, interest_rate, remodel_cost, months) ==
    LET down_payment     == FMul(purchase_price, FDiv(down_pct, FromInt(100)))
        loan_amount      == FMul(purchase_price,
                                 FSub(FromInt(1), FDiv(down_pct, FromInt(100))))
        seller_agent     == FMul(purchase_price, Lit(3, 100))
        cash_to_acquire  == FAdd(FAdd(down_payment, closing_costs(loan_amount)),
                                 seller_agent)
        monthly_interest == FDiv(FMul(loan_amount, FDiv(interest_rate, FromInt(100))),
                                 FromInt(12))
        total_interest   == FMul(monthly_interest, months)
        monthly_holding  == FromInt(1000 + 300 + 167)
        holding_costs    == FAdd(total_interest, FMul(monthly_holding, months))
    IN  [purchase_price  |-> purchase_price,
         down_payment    |-> down_payment,
         loan_amount     |-> loan_amount,
         closing_costs   |-> closing_costs(loan_amount),
         seller_agent    |-> seller_agent,
         cash_to_acquire |-> cash_to_acquire,
         interest        |-> total_interest,
         holding_costs   |-> holding_costs,
         remodel_cost    |-> remodel_cost,
         total_cash      |-> FAdd(FAdd(cash_to_acquire, holding_costs), remodel_cost)]

(***************************************************************************)
(* calculate_flip_profit(buy_costs, sell_price)                            *)
(***************************************************************************)
\* the sale's proceeds without the payoff of the loan
net_proceeds_loan_kept(sell_price, commission_4pct, transfer_fees, loan_amount) ==
    FSub(FSub(sell_price, commission_4pct), transfer_fees)

\* sell_price - commission_4pct - transfer_fees - buy_costs['loan_amount']
net_proceeds(sell_price, commission_4pct, transfer_fees, loan_amount) ==
    FSub(FSub(FSub(sell_price, commission_4pct), transfer_fees), loan_amount)

\* a return on nothing invested reported as 0
roi_zero_when_nothing_invested(profit, total_cash) ==
    IF total_cash = FZero THEN FZero
    ELSE FMul(FDiv(profit, total_cash), FromInt(100))

\* (profit / buy_costs['total_cash']) * 100
roi(profit, total_cash) ==
    The({ IF Raised(q) THEN q ELSE FMul(q, FromInt(100)) :
          q \in {TrueDiv(profit, total_cash)} })

\* the division of roi raises before the dictionary is built
calculate_flip_profit(buy_costs, sell_price) ==
    LET commission_4pct == FMul(sell_price, Lit(4, 100))
        transfer_fees   == FAdd(FMul(sell_price, Lit(11, 10000)), FromInt(3000))
        proceeds        == net_proceeds(sell_price, commission_4pct, transfer_fees,
                                        buy_costs.loan_amount)
        profit          == FSub(proceeds, buy_costs.total_cash)
    IN  The({ IF Raised(r) THEN r
              ELSE [sell_price    |-> sell_price,
                    commission    |-> commission_4pct,
                    transfer_fees |-> transfer_fees,
                    net_proceeds  |-> proceeds,
                    profit        |-> profit,
                    roi           |-> r] :
              r \in {roi(profit, buy_costs.total_cash)} })

(***************************************************************************)
(* The breakeven sale price of the buyer/flip analysis.                    *)
(***************************************************************************)
\* the selling costs without the fixed fee's share
selling_percent_no_fixed_fee == FAdd(Lit(4, 100), Lit(11, 10000))

\* 0.04 + 0.0011 + (3000 / 1000000)
selling_percent ==
    FAdd(FAdd(Lit(4, 100), Lit(11, 10000)), FDiv(FromInt(3000), FromInt(1000000)))

breakeven_price(buy_costs) ==
    LET total_all_in == FAdd(buy_costs.total_cash, buy_costs.loan_amount)
    IN  FDiv(total_all_in, FSub(FromInt(1), selling_percent))

FMax(a, b) == The({ IF FLt(x, y) THEN y ELSE x : x \in {a}, y \in {b} })

(***************************************************************************)
(* The form (sidebar).  A widget keeps its value inside its bounds:        *)
(* number_input(min_value = ...) and slider(min, max, value, step).        *)
(***************************************************************************)
AnalysisTypes == {"Seller Analysis", "Buyer/Flip Analysis", "Both"}

DefaultWidgets ==
    [property_name    |-> "38173 Canyon Oaks Ct",
     bedrooms         |-> 4,
     sqft             |-> 2523,
     bathrooms        |-> 3,
     year_built       |-> 1991,
     analysis_type    |-> "Seller Analysis",
     mls_price        |-> 950000,
     direct_offer_1   |-> 850000,
     direct_offer_2   |-> 875000,
     direct_offer_3   |-> 900000,
     purchase_price   |-> 900000,
     down_payment_pct |-> 10,
     interest_rate    |-> Lit(600, 100),
     remodel_cost     |-> 100000,
     remodel_months   |-> 4,
     sale_price_1     |-> 1100000,
     sale_price_2     |-> 1120000,
     sale_price_3     |-> 1150000,
     notes            |-> ""]

\* the bounds of the widgets with no floor under the remodel cost
WidgetsValidNoRemodelFloor(w) ==
    /\ w.bedrooms >= 1 /\ w.sqft >= 100 /\ w.bathrooms >= 1 /\ w.year_built >= 1900
    /\ w.analysis_type \in AnalysisTypes
    /\ w.mls_price >= 0
    /\ w.direct_offer_1 >= 0 /\ w.direct_offer_2 >= 0 /\ w.direct_offer_3 >= 0
    /\ w.purchase_price >= 0
    /\ w.down_payment_pct \in {5 * k : k \in 1..10}
    /\ FLe(FromInt(3), w.interest_rate) /\ FLe(w.interest_rate, FromInt(10))
    /\ w.remodel_months \in 1..12
    /\ w.sale_price_1 >= 0 /\ w.sale_price_2 >= 0 /\ w.sale_price_3 >= 0

\* the bounds the widgets enforce on what the user enters
WidgetsValid(w) ==
    /\ w.bedrooms >= 1 /\ w.sqft >= 100 /\ w.bathrooms >= 1 /\ w.year_built >= 1900
    /\ w.analysis_type \in AnalysisTypes
    /\ w.mls_price >= 0
    /\ w.direct_offer_1 >= 0 /\ w.direct_offer_2 >= 0 /\ w.direct_offer_3 >= 0
    /\ w.purchase_price >= 0
    /\ w.down_payment_pct \in {5 * k : k \in 1..10}
    /\ FLe(FromInt(3), w.interest_rate) /\ FLe(w.interest_rate, FromInt(10))
    /\ w.remodel_cost >= 0
    /\ w.remodel_months \in 1..12
    /\ w.sale_price_1 >= 0 /\ w.sale_price_2 >= 0 /\ w.sale_price_3 >= 0

(***************************************************************************)
(* The Analysis tab of one script run.  An uncaught exception ends the     *)
(* run there: nothing after it is executed.                                *)
(***************************************************************************)
NotShown == [shown |-> FALSE]

\* lines 195-254: what the seller section derives from the four results
SellerResults(mls_calc, offer1_calc, offer2_calc, offer3_calc) ==
    LET savings    == FAdd(FAdd(mls_calc.buyer_agent, mls_calc.prep_costs),
                           mls_calc.holding_costs)
        best_offer == FMax(FMax(offer1_calc.net, offer2_calc.net), offer3_calc.net)
        diff       == FSub(best_offer, mls_calc.net)
        ratio      == TrueDiv(diff, mls_calc.net)
    IN  IF Raised(ratio) THEN ratio
        ELSE [mls_calc      |-> mls_calc,
              offer1_calc   |-> offer1_calc,
              offer2_calc   |-> offer2_calc,
              offer3_calc   |-> offer3_calc,
              savings       |-> savings,
              diff          |-> diff,
              delta         |-> FMul(ratio, FromInt(100)),
              timeline_diff |-> IF FLt(diff, FromInt(-10000))
                                THEN "60-90 days" ELSE "21 days"]

SellerAnalysis(w) ==
    The({ SellerResults(mls_calc, offer1_calc, offer2_calc, offer3_calc) :
          mls_calc    \in {calculate_seller_net(FromInt(w.mls_price), TRUE)},
          offer1_calc \in {calculate_seller_net(FromInt(w.direct_offer_1), FALSE)},
          offer2_calc \in {calculate_seller_net(FromInt(w.direct_offer_2), FALSE)},
          offer3_calc \in {calculate_seller_net(FromInt(w.direct_offer_3), FALSE)} })

\* lines 284-342: what the buyer section derives from the results; the
\* first call of calculate_flip_profit that raises ends the run
BuyerResults(buy_costs, profit1, profit2, profit3) ==
    IF Raised(profit1) THEN profit1
    ELSE IF Raised(profit2) THEN profit2
    ELSE IF Raised(profit3) THEN profit3
    ELSE The({ [buy_costs       |-> buy_costs,
                profit1         |-> profit1,
                profit2         |-> profit2,
                profit3         |-> profit3,
                breakeven_price |-> breakeven_price(buy_costs),
                best_roi        |-> best_roi,
                best_profit     |-> FMax(FMax(profit1.profit, profit2.profit),
                                         profit3.profit),
                assessment      |-> IF FLt(best_roi, FZero) THEN "WARNING"
                                    ELSE IF FLt(best_roi, FromInt(10)) THEN "MARGINAL DEAL"
                                    ELSE IF FLt(best_roi, FromInt(20)) THEN "DECENT DEAL"
                                    ELSE "STRONG DEAL"] :
               best_roi \in {FMax(FMax(profit1.roi, profit2.roi), profit3.roi)} })

FlipScenarios(w, buy_costs) ==
    The({ BuyerResults(buy_costs, profit1, profit2, profit3) :
          profit1 \in {calculate_flip_profit(buy_costs, FromInt(w.sale_price_1))},
          profit2 \in {calculate_flip_profit(buy_costs, FromInt(w.sale_price_2))},
          profit3 \in {calculate_flip_profit(buy_costs, FromInt(w.sale_price_3))} })

BuyerAnalysis(w) ==
    The({ FlipScenarios(w, buy_costs) :
          buy_costs \in {calculate_buyer_costs(FromInt(w.purchase_price),
                             FromInt(w.down_payment_pct), w.interest_rate,
                             FromInt(w.remodel_cost), FromInt(w.remodel_months))} })

RunResults(seller, buyer) ==
    IF Raised(seller) THEN seller
    ELSE IF Raised(buyer) THEN buyer
    ELSE [seller |-> seller, buyer |-> buyer]

RunAnalysis(w) ==
    The({ RunResults(seller, buyer) :
          seller \in {IF w.analysis_type \in {"Seller Analysis", "Both"}
                      THEN SellerAnalysis(w) ELSE NotShown},
          buyer  \in {IF w.analysis_type \in {"Buyer/Flip Analysis", "Both"}
                      THEN BuyerAnalysis(w) ELSE NotShown} })

(***************************************************************************)
(* State.                                                                  *)
(***************************************************************************)
VARIABLES
    properties,         \* st.session_state.properties
    widgets,            \* the values of the form's widgets
    event,              \* what the user did to start the last script run
    analysis,           \* what the Analysis tab computed in the last script run
    pc,                 \* "app", or where a direct use of the calculators stands
    args,               \* the inputs of that direct use
    seller_mls_ret,     \* calculate_seller_net(price, is_mls=True)
    seller_direct_ret,  \* calculate_seller_net(price, is_mls=False)
    buyer_ret,          \* calculate_buyer_costs(...)
    flip_ret,           \* calculate_flip_profit(buyer_ret, sell_price)
    breakeven_ret,      \* the breakeven sale price of buyer_ret
    roundtrip_ret       \* calculate_flip_profit(buyer_ret, breakeven_ret)

vars == <<properties, widgets, event, analysis, pc, args, seller_mls_ret,
          seller_direct_ret, buyer_ret, flip_ret, breakeven_ret, roundtrip_ret>>

appVars == <<properties, widgets, event, analysis>>

calcVars == <<pc, args, seller_mls_ret, seller_direct_ret, buyer_ret, flip_ret,
              breakeven_ret, roundtrip_ret>>

\* not computed yet
Pending == [pending |-> TRUE]

(***************************************************************************)
(* A session of the app: every interaction reruns the whole script.        *)
(***************************************************************************)
MaxProperties == 2

PropertyNames == {"38173 Canyon Oaks Ct", "12 Elm St"}

\* datetime.now().strftime("%Y-%m-%d %H:%M") at the moment of a save
SavedDates == {"2026-01-05 09:00", "2026-01-05 09:01"}

\* <<mls_price, direct_offer_1, direct_offer_2, direct_offer_3>>
SellerEntries ==
    { <<950000, 850000, 875000, 900000>>,
      <<0, 0, 0, 0>>,
      <<-10000, 850000, 875000, 900000>> }

\* <<purchase_price, down_payment_pct, interest_rate, remodel_cost,
\*   remodel_months, sale_price_1, sale_price_2, sale_price_3>>
BuyerEntries ==
    { <<900000, 10, Lit(600, 100), 100000, 4, 1100000, 1120000, 1150000>>,
      <<0, 5, Lit(300, 100), 0, 1, 0, 0, 0>>,
      <<3, 50, Lit(1000, 100), 0, 12, 1100000, 1120000, 1150000>>,
      <<900000, 55, Lit(600, 100), 100000, 4, 1100000, 1120000, 1150000>>,
      <<900000, 10, Lit(600, 100), 100000, 0, 1100000, 1120000, 1150000>>,
      <<0, 10, Lit(600, 100), -5767, 1, 1100000, 1120000, 1150000>> }

Entered(n, t, se, be) ==
    [DefaultWidgets EXCEPT
        !.property_name = n, !.analysis_type = t,
        !.mls_price = se[1], !.direct_offer_1 = se[2],
        !.direct_offer_2 = se[3], !.direct_offer_3 = se[4],
        !.purchase_price = be[1], !.down_payment_pct = be[2],
        !.interest_rate = be[3], !.remodel_cost = be[4],
        !.remodel_months = be[5], !.sale_price_1 = be[6],
        !.sale_price_2 = be[7], !.sale_price_3 = be[8]]

\* what the user can leave in the form: the widgets refuse the rest
FormInputs ==
    { w \in { Entered(n, t, se, be) : n \in PropertyNames, t \in AnalysisTypes,
                                      se \in SellerEntries, be \in BuyerEntries } :
        WidgetsValid(w) }

\* the Analysis tab for each content of the form: a run computes it from the
\* form alone, so it is tabulated once
AnalysisTable == { <<w, RunAnalysis(w)>> : w \in FormInputs }

AnalysisOf(w) == (CHOOSE p \in AnalysisTable : p[1] = w)[2]

\* property_data of the Save Property button
PropertyData(w, now) ==
    [name       |-> w.property_name,
     bedrooms   |-> w.bedrooms,
     bathrooms  |-> w.bathrooms,
     sqft       |-> w.sqft,
     year_built |-> w.year_built,
     notes      |-> w.notes,
     saved_date |-> now]

\* a pop that ignores its index and takes the last entry
PopLast(list, idx) == SubSeq(list, 1, Len(list) - 1)

\* list.pop(idx), idx counted from 0
Pop(list, idx) == SubSeq(list, 1, idx) \o SubSeq(list, idx + 2, Len(list))

\* the first run of the script when the page is opened
Init ==
    /\ properties = << >>
    /\ widgets = DefaultWidgets
    /\ event = [kind |-> "load"]
    /\ analysis = AnalysisOf(DefaultWidgets)
    /\ pc = "app"
    /\ args = Pending
    /\ seller_mls_ret = Pending
    /\ seller_direct_ret = Pending
    /\ buyer_ret = Pending
    /\ flip_ret = Pending
    /\ breakeven_ret = Pending
    /\ roundtrip_ret = Pending

\* the user changes the form: the script runs with the new values
Interact(w) ==
    /\ pc = "app"
    /\ w # widgets
    /\ widgets' = w
    /\ event' = [kind |-> "form"]
    /\ analysis' = AnalysisOf(w)
    /\ UNCHANGED <<properties, calcVars>>

\* the Save Property button: the sidebar appends, then the tabs are drawn
SaveProperty(now) ==
    /\ pc = "app"
    /\ Len(properties) < MaxProperties
    /\ properties' = Append(properties, PropertyData(widgets, now))
    /\ event' = [kind |-> "save"]
    /\ analysis' = AnalysisOf(widgets)
    /\ UNCHANGED <<widgets, calcVars>>

\* the Delete button of entry idx in the Saved Properties tab.  The run
\* reaches that tab only when the Analysis tab before it raised nothing,
\* as in the run that drew the button; st.rerun() then runs the script again
DeleteProperty(idx) ==
    /\ pc = "app"
    /\ idx \in 0..(Len(properties) - 1)
    /\ ~Raised(analysis)
    /\ properties' = Pop(properties, idx)
    /\ event' = [kind |-> "delete", idx |-> idx]
    /\ analysis' = AnalysisOf(widgets)
    /\ UNCHANGED <<widgets, calcVars>>

(***************************************************************************)
(* Direct use of the calculators, on inputs inside and outside their       *)
(* stated domains: the two seller results, the buyer costs, a flip, the    *)
(* breakeven price and the flip at that price.                             *)
(***************************************************************************)
BaseArgs ==
    [price          |-> 950000,
     purchase_price |-> 900000,
     down_pct       |-> 10,
     interest_rate  |-> Lit(600, 100),
     remodel_cost   |-> 100000,
     months         |-> 4,
     sell_price     |-> 1100000]

SellerPrices == {0, 1, 31018, 950000, 1000000, -10000, -1}

\* <<purchase_price, down_pct, interest_rate, remodel_cost, months>>
BuyerInputs ==
    { <<900000, 10, Lit(600, 100), 100000, 4>>,
      <<900000, 10, Lit(300, 100), 2532, 4>>,
      <<900000, 100, Lit(1000, 100), 0, 12>>,
      <<3, 5, Lit(625, 100), 0, 1>>,
      <<30000, 7, Lit(61, 10), 5000, 12>>,
      <<1, 35, Lit(300, 100), 0, 1>>,
      <<0, 0, FZero, 0, 1>>,
      <<0, 10, Lit(600, 100), -5767, 1>>,
      <<-10000, 10, Lit(600, 100), 0, 4>>,
      <<900000, 150, Lit(600, 100), 0, 4>>,
      <<900000, -5, Lit(600, 100), 0, 4>>,
      <<900000, 10, Lit(600, 100), 0, 0>>,
      <<900000, 10, Lit(600, 100), 0, -1>> }

SellPrices == {0, 1100000, 1000000}

CalcInputs ==
    { [BaseArgs EXCEPT !.price = p] : p \in SellerPrices }
    \cup
    { [BaseArgs EXCEPT !.purchase_price = b[1], !.down_pct = b[2],
                       !.interest_rate = b[3], !.remodel_cost = b[4],
                       !.months = b[5], !.sell_price = s] :
        b \in BuyerInputs, s \in SellPrices }

InitCalc ==
    /\ properties = << >>
    /\ widgets = DefaultWidgets
    /\ event = [kind |-> "none"]
    /\ analysis = Pending
    /\ pc = "seller_mls"
    /\ args \in CalcInputs
    /\ seller_mls_ret = Pending
    /\ seller_direct_ret = Pending
    /\ buyer_ret = Pending
    /\ flip_ret = Pending
    /\ breakeven_ret = Pending
    /\ roundtrip_ret = Pending

CallSellerNetMLS ==
    /\ pc = "seller_mls"
    /\ seller_mls_ret' = calculate_seller_net(FromInt(args.price), TRUE)
    /\ pc' = "seller_direct"
    /\ UNCHANGED <<appVars, args, seller_direct_ret, buyer_ret, flip_ret,
                   breakeven_ret, roundtrip_ret>>

CallSellerNetDirect ==
    /\ pc = "seller_direct"
    /\ seller_direct_ret' = calculate_seller_net(FromInt(args.price), FALSE)
    /\ pc' = "buyer"
    /\ UNCHANGED <<appVars, args, seller_mls_ret, buyer_ret, flip_ret,
                   breakeven_ret, roundtrip_ret>>

CallBuyerCosts ==
    /\ pc = "buyer"
    /\ buyer_ret' = calculate_buyer_costs(FromInt(args.purchase_price),
                        FromInt(args.down_pct), args.interest_rate,
                        FromInt(args.remodel_cost), FromInt(args.months))
    /\ pc' = "flip"
    /\ UNCHANGED <<appVars, args, seller_mls_ret, seller_direct_ret, flip_ret,
                   breakeven_ret, roundtrip_ret>>

CallFlipProfit ==
    /\ pc = "flip"
    /\ flip_ret' = calculate_flip_profit(buyer_ret, FromInt(args.sell_price))
    /\ pc' = "breakeven"
    /\ UNCHANGED <<appVars, args, seller_mls_ret, seller_direct_ret, buyer_ret,
                   breakeven_ret, roundtrip_ret>>

Breakeven ==
    /\ pc = "breakeven"
    /\ breakeven_ret' = breakeven_price(buyer_ret)
    /\ pc' = "roundtrip"
    /\ UNCHANGED <<appVars, args, seller_mls_ret, seller_direct_ret, buyer_ret,
                   flip_ret, roundtrip_ret>>

CallFlipProfitAtBreakeven ==
    /\ pc = "roundtrip"
    /\ roundtrip_ret' = calculate_flip_profit(buyer_ret, breakeven_ret)
    /\ pc' = "done"
    /\ UNCHANGED <<appVars, args, seller_mls_ret, seller_direct_ret, buyer_ret,
                   flip_ret, breakeven_ret>>

(***************************************************************************)
(* The program: a session of the app, or a direct use of the calculators.  *)
(***************************************************************************)
Start == Init \/ InitCalc

Next ==
    \/ \E w \in FormInputs : Interact(w)
    \/ \E now \in SavedDates : SaveProperty(now)
    \/ \E idx \in 0..(MaxProperties - 1) : DeleteProperty(idx)
    \/ CallSellerNetMLS
    \/ CallSellerNetDirect
    \/ CallBuyerCosts
    \/ CallFlipProfit
    \/ Breakeven
    \/ CallFlipProfitAtBreakeven

Spec == Start /\ [][Next]_vars

(***************************************************************************)
(* Properties.                                                             *)
(***************************************************************************)
SellerDone == pc \in {"buyer", "flip", "breakeven", "roundtrip", "done"}

BuyerDone == pc \in {"flip", "breakeven", "roundtrip", "done"}

FlipDone == pc \in {"breakeven", "roundtrip", "done"}

RoundtripDone == pc = "done"

\* the stated domain of calculate_buyer_costs
ValidBuyerArgs ==
    /\ args.purchase_price >= 0
    /\ args.down_pct \in 0..100
    /\ FLe(FZero, args.interest_rate)
    /\ args.remodel_cost >= 0
    /\ args.months > 0

\* the scenario (900000, 10, 6.0, 100000, 4)
BaseBuyerArgs ==
    /\ args.purchase_price = 900000
    /\ args.down_pct = 10
    /\ args.interest_rate = FromInt(6)
    /\ args.remodel_cost = 100000
    /\ args.months = 4

\* price - (price*0.03 + price*0.02 + prep + 2933 + price*0.0011 + 1500)
ListedNet(price, prep) ==
    FSub(price, FAdd(FAdd(FAdd(FAdd(FAdd(FMul(price, Lit(3, 100)),
                                         FMul(price, Lit(2, 100))),
                                    FromInt(prep)), FromInt(2933)),
                          FMul(price, Lit(11, 10000))), FromInt(1500)))

\* price - (price*0.03 + price*0.0011 + 1500)
UnlistedNet(price) ==
    FSub(price, FAdd(FAdd(FMul(price, Lit(3, 100)), FMul(price, Lit(11, 10000))),
                     FromInt(1500)))

BuyerCostFormulas(b) ==
    /\ b.seller_agent = FMul(FromInt(args.purchase_price), Lit(3, 100))
    /\ b.cash_to_acquire = FAdd(FAdd(b.down_payment, b.closing_costs), b.seller_agent)
    /\ b.holding_costs =
           FAdd(FMul(FDiv(FMul(b.loan_amount, FDiv(args.interest_rate, FromInt(100))),
                          FromInt(12)),
                     FromInt(args.months)),
                FMul(FromInt(1467), FromInt(args.months)))
    /\ b.total_cash = FAdd(FAdd(b.cash_to_acquire, b.holding_costs),
                           FromInt(args.remodel_cost))
    /\ (BaseBuyerArgs => b.total_cash = FromInt(251468))

\* C2 as stated: for every valid buyer input, closing_costs =
\* loan_amount*0.01 + 4300, seller_agent = purchase_price*0.03,
\* cash_to_acquire = down_payment + closing_costs + seller_agent,
\* holding_costs = loan_amount*(interest_rate/100)/12*months + 1467*months,
\* total_cash = cash_to_acquire + holding_costs + remodel_cost, and total_cash
\* is 251468 for (900000, 10, 6.0, 100000, 4).
C2_BuyerCostsAsStated ==
    BuyerDone /\ ValidBuyerArgs =>
        /\ buyer_ret.closing_costs =
               FAdd(FMul(buyer_ret.loan_amount, Lit(1, 100)), FromInt(4300))
        /\ BuyerCostFormulas(buyer_ret)

\* C2 amended: as stated, but with closing_costs =
\* loan_amount*0.01 + 600 + 500 + 1500 + 1500 + 200, the fees added one at a
\* time from the left, which is loan_amount*0.01 + 4300 only up to the
\* rounding of the additions.
C2_BuyerCosts ==
    BuyerDone /\ ValidBuyerArgs =>
        /\ buyer_ret.closing_costs =
               FAdd(FAdd(FAdd(FAdd(FAdd(FMul(buyer_ret.loan_amount, Lit(1, 100)),
                    FromInt(600)), FromInt(500)), FromInt(1500)), FromInt(1500)),
                    FromInt(200))
        /\ BuyerCostFormulas(buyer_ret)

C2_Witness ==
    /\ BuyerDone
    /\ args.purchase_price = 1
    /\ args.down_pct = 35
    /\ ValidBuyerArgs
    /\ buyer_ret.closing_costs #
           FAdd(FMul(buyer_ret.loan_amount, Lit(1, 100)), FromInt(4300))

\* C3: for every buyer result b with total_cash # 0 and every sell_price >= 0,
\* net_proceeds = sell_price - sell_price*0.04 - (sell_price*0.0011 + 3000)
\* - b.loan_amount, profit = net_proceeds - b.total_cash and
\* roi = profit / b.total_cash * 100; for (900000, 10, 6.0, 100000, 4) sold at
\* 1100000 the net proceeds are 241790 and the profit is -9678.
C3_FlipProfit ==
    FlipDone /\ buyer_ret.total_cash # FZero /\ args.sell_price >= 0 =>
        /\ flip_ret.net_proceeds =
               FSub(FSub(FSub(FromInt(args.sell_price),
                              FMul(FromInt(args.sell_price), Lit(4, 100))),
                         FAdd(FMul(FromInt(args.sell_price), Lit(11, 10000)),
                              FromInt(3000))),
                    buyer_ret.loan_amount)
        /\ flip_ret.profit = FSub(flip_ret.net_proceeds, buyer_ret.total_cash)
        /\ flip_ret.roi =
               FMul(FDiv(flip_ret.profit, buyer_ret.total_cash), FromInt(100))
        /\ (BaseBuyerArgs /\ args.sell_price = 1100000 =>
               /\ flip_ret.net_proceeds = FromInt(241790)
               /\ flip_ret.profit = FromInt(-9678))

C3_Witness ==
    /\ FlipDone
    /\ BaseBuyerArgs
    /\ args.sell_price = 1100000
    /\ buyer_ret.loan_amount = FromInt(810000)
    /\ flip_ret.net_proceeds = FromInt(241790)
    /\ flip_ret.profit = FromInt(-9678)

\* C4 as stated: for every valid buyer input the result has
\* down_payment + loan_amount = purchase_price exactly.
C4_DownPlusLoanAsStated ==
    BuyerDone /\ ValidBuyerArgs =>
        FAdd(buyer_ret.down_payment, buyer_ret.loan_amount)
            = FromInt(args.purchase_price)

\* C5: for every price >= 0 the listed net is at most the unlisted net.
C5_DirectNetsMore ==
    SellerDone /\ args.price >= 0 => FLe(seller_mls_ret.net, seller_direct_ret.net)

C5_Witness ==
    /\ SellerDone
    /\ args.price = 1000000
    /\ FLt(seller_mls_ret.net, seller_direct_ret.net)

\* C6: calculate_flip_profit on a buyer result whose total_cash is 0 ends in
\* ZeroDivisionError at every sell price and returns no result.
C6_ZeroCashRaises ==
    /\ FlipDone /\ buyer_ret.total_cash = FZero
           => flip_ret = Raise("ZeroDivisionError")
    /\ RoundtripDone /\ buyer_ret.total_cash = FZero
           => roundtrip_ret = Raise("ZeroDivisionError")

C6_Witness ==
    /\ RoundtripDone
    /\ buyer_ret.total_cash = FZero
    /\ args.sell_price = 1100000
    /\ Raised(flip_ret)
    /\ Raised(roundtrip_ret)

\* C7 as stated: a negative price given to calculate_seller_net, and a
\* negative purchase_price, a down_pct outside [0, 100] or months <= 0 given
\* to calculate_buyer_costs, end in InvalidInput and return no result.
C7_InvalidInputRejectedAsStated ==
    /\ SellerDone /\ args.price < 0 =>
           /\ seller_mls_ret = Raise("InvalidInput")
           /\ seller_direct_ret = Raise("InvalidInput")
    /\ BuyerDone /\ (\/ args.purchase_price < 0
                     \/ args.down_pct \notin 0..100
                     \/ args.months <= 0) =>
           buyer_ret = Raise("InvalidInput")

\* 0.003*S - 3000
FixedFeeGap(S) == FSub(FMul(Lit(3, 1000), S), FromInt(3000))

\* C8 as stated: the profit of the flip at the breakeven price S is exactly
\* 0.003*S - 3000, and exactly 0 when S = 1000000.
C8_RoundTripAsStated ==
    RoundtripDone /\ ValidBuyerArgs =>
        /\ roundtrip_ret.profit = FixedFeeGap(breakeven_ret)
        /\ (breakeven_ret = FromInt(1000000) => roundtrip_ret.profit = FZero)

\* C8 amended: for the buyer result of every valid input, the profit of the
\* flip at the breakeven price S is 0.003*S - 3000 up to the rounding of the
\* float operations, within S * 2^-45 of it; for (900000, 10, 3.0, 2532, 4)
\* S is 1000000 and the profit is exactly 0.
C8_RoundTrip ==
    RoundtripDone /\ ValidBuyerArgs =>
        /\ breakeven_ret =
               FDiv(FAdd(buyer_ret.total_cash, buyer_ret.loan_amount),
                    FSub(FromInt(1),
                         FAdd(FAdd(Lit(4, 100), Lit(11, 10000)),
                              FDiv(FromInt(3000), FromInt(1000000)))))
        /\ FLe(FAbs(FSub(roundtrip_ret.profit, FixedFeeGap(breakeven_ret))),
               FMul(breakeven_ret, [neg |-> FALSE, m |-> <<1>>, e |-> -45]))
        /\ (args.purchase_price = 900000 /\ args.down_pct = 10
            /\ args.interest_rate = FromInt(3) /\ args.remodel_cost = 2532
            /\ args.months = 4 =>
               /\ breakeven_ret = FromInt(1000000)
               /\ roundtrip_ret.profit = FZero)

C8_Witness ==
    /\ RoundtripDone
    /\ ValidBuyerArgs
    /\ breakeven_ret = FromInt(1000000)
    /\ roundtrip_ret.profit = FZero

\* C9: on every path from the form, and for every valid buyer input with
\* months > 0, total_cash is positive, at least 4300 + 1467*months, and no
\* call of calculate_flip_profit divides by zero.
C9_CashInvestedPositive ==
    /\ pc = "app" =>
           /\ ~Raised(analysis)
           /\ (analysis.buyer # NotShown =>
                  /\ FLt(FZero, analysis.buyer.buy_costs.total_cash)
                  /\ FLe(FromInt(4300 + 1467 * widgets.remodel_months),
                         analysis.buyer.buy_costs.total_cash)
                  /\ ~Raised(analysis.buyer.profit1)
                  /\ ~Raised(analysis.buyer.profit2)
                  /\ ~Raised(analysis.buyer.profit3))
    /\ BuyerDone /\ ValidBuyerArgs =>
           /\ FLt(FZero, buyer_ret.total_cash)
           /\ FLe(FromInt(4300 + 1467 * args.months), buyer_ret.total_cash)
    /\ FlipDone /\ ValidBuyerArgs => ~Raised(flip_ret)
    /\ RoundtripDone /\ ValidBuyerArgs => ~Raised(roundtrip_ret)

C9_Witness ==
    /\ pc = "app"
    /\ ~Raised(analysis)
    /\ analysis.buyer # NotShown
    /\ widgets.purchase_price = 0
    /\ widgets.remodel_cost = 0
    /\ widgets.remodel_months = 1
    /\ analysis.buyer.buy_costs.total_cash = FromInt(4300 + 1467)
    /\ ~Raised(analysis.buyer.profit1)

\* what a step may do to the saved list, by what the user did
ListStep ==
    CASE event'.kind = "save" ->
             /\ Len(properties') = Len(properties) + 1
             /\ SubSeq(properties', 1, Len(properties)) = properties
             /\ properties'[Len(properties')].name = widgets.property_name
             /\ properties'[Len(properties')].saved_date \in SavedDates
      [] event'.kind = "delete" ->
             /\ Len(properties') = Len(properties) - 1
             /\ \A j \in 1..Len(properties') :
                    properties'[j] = IF j <= event'.idx THEN properties[j]
                                     ELSE properties[j + 1]
      [] OTHER -> properties' = properties

====
